---- MODULE Spec2Model ----
(***************************************************************************)
(* ThrustCurve motor analysis: the desktop viewer (visualize.py) and the   *)
(* web dashboard (app_web.py).  Sequences hold Python lists/arrays; index  *)
(* VALUES are Python's zero-based positions, At(s, i) reads s[i].          *)
(* An optional value (Python None) is the empty sequence, a present value  *)
(* v is <<v>>.                                                             *)
(***************************************************************************)
EXTENDS Integers, Sequences, FiniteSets, TLC

VARIABLES
    app,               \* which program runs: "desktop" or "web"
    data,              \* the loaded record list (visualize.data / app_web.df rows)
    show,              \* show_low / show_l1 / show_l2 / show_l3
    indices_filtered,  \* GraphPage.indices_filtered / filtered_df.index
    x_filtered,        \* x column of the plotted subset
    y_filtered,        \* y column of the plotted subset
    drawn,             \* the scatter of the last plot exists (self.sc / the chart)
    overlay,           \* regression traces of the last plot: <<>> or <<[m, b, ...]>>
    clicked,           \* idx_in_filtered of the last desktop click: <<>> or <<i>>
    selected,          \* desktop: index given to show_details_popup; web: selected_motor
    pc,                \* position in the handler / script
    evk,               \* web: position of the selection loop in events
    messages,          \* messages reported to the user (st.warning / st.error / print)
    uncaught,          \* exception that left the handler: "none" or its name
    processed,         \* load_data: processed_data; visualize.py: the per-field lists
    resp,              \* fetch_thrust_curve: the response of the download service
    fetch,             \* fetch_thrust_curve: its local variables
    result,            \* fetch_thrust_curve: the value returned
    frames             \* MotorVisApp.frames: the fields of each GraphPage object

vars == <<app, data, show, indices_filtered, x_filtered, y_filtered, drawn, overlay,
          clicked, selected, pc, evk, messages, uncaught, processed, resp, fetch, result,
          frames>>
filterVars == <<show, indices_filtered, clicked, selected, evk, frames>>
plotVars == <<x_filtered, y_filtered, drawn, overlay>>
loadVars == <<data, processed>>
fetchVars == <<resp, fetch, result>>

\* ---------------------------------------------------------------- bounds
MaxRecords == 2

\* ------------------------------------------------------------- helpers
None == <<>>
Some(v) == <<v>>
At(s, i) == s[i + 1]
InRange(s, i) == i >= 0 /\ i < Len(s)

Tiers == {"low", "l1", "l2", "l3"}

\* input values of the two columns the modelled chart uses: one impulse in
\* every tier, and a second weight so that x is not always constant
Impulses == {160, 640, 5120, 5121}
Records ==
    [totImpulseNs : Impulses, totalWeightG : {10}]
        \cup [totImpulseNs : {160}, totalWeightG : {20}]

\* impulses within TierWindow of every tier boundary, and the low end
TierWindow == 2
TierImpulses ==
    {-1, 0} \cup UNION {(c - TierWindow)..(c + TierWindow) : c \in {160, 640, 5120}}
TierData == {<<r>> : r \in [totImpulseNs : TierImpulses, totalWeightG : {10}]}

SeqsUpTo(S, n) == UNION {[1..k -> S] : k \in 0..n}

\* ------------------------------------------------- exact arithmetic
\* A float is carried as an exact fraction <<numerator, denominator>>,
\* denominator > 0, in lowest terms.
RECURSIVE GCD(_, _)
GCD(a, b) == IF b = 0 THEN a ELSE GCD(b, a % b)
Abs(a) == IF a < 0 THEN -a ELSE a
Frac(n, d) ==
    LET s == IF d < 0 THEN -1 ELSE 1
        g == GCD(Abs(n), Abs(d))
    IN  <<(s * n) \div g, (s * d) \div g>>
FInt(n) == <<n, 1>>
FAdd(p, q) == Frac(p[1] * q[2] + q[1] * p[2], p[2] * q[2])

RECURSIVE SumSeq(_)
SumSeq(s) == IF s = <<>> THEN 0 ELSE Head(s) + SumSeq(Tail(s))
RECURSIVE FSumSeq(_)
FSumSeq(s) == IF s = <<>> THEN FInt(0) ELSE FAdd(Head(s), FSumSeq(Tail(s)))

\* ----------------------------------------------- certification tiers
\* the four comparisons of the filter mask
InLow(v) == v <= 160
InL1_closed(v) == v >= 160 /\ v <= 640
InL1(v) == v > 160 /\ v <= 640
InL2(v) == v > 640 /\ v <= 5120
InL3(v) == v > 5120

TierHolds(t, v) ==
    CASE t = "low" -> InLow(v)
      [] t = "l1" -> InL1(v)
      [] t = "l2" -> InL2(v)
      [] t = "l3" -> InL3(v)

BuildMask_l2twice(filter_metric, sh) ==
    [i \in 1..Len(filter_metric) |->
        \/ sh["low"] /\ InLow(filter_metric[i])
        \/ sh["l1"] /\ InL1(filter_metric[i])
        \/ sh["l2"] /\ InL2(filter_metric[i])
        \/ sh["l2"] /\ InL3(filter_metric[i])]
\* mask = zeros; if show_low: mask |= ...; if show_l1: mask |= ...; ...
BuildMask(filter_metric, sh) ==
    LET m0 == [i \in 1..Len(filter_metric) |-> FALSE]
        m1 == IF sh["low"] THEN [i \in DOMAIN m0 |-> m0[i] \/ InLow(filter_metric[i])] ELSE m0
        m2 == IF sh["l1"] THEN [i \in DOMAIN m1 |-> m1[i] \/ InL1(filter_metric[i])] ELSE m1
        m3 == IF sh["l2"] THEN [i \in DOMAIN m2 |-> m2[i] \/ InL2(filter_metric[i])] ELSE m2
        m4 == IF sh["l3"] THEN [i \in DOMAIN m3 |-> m3[i] \/ InL3(filter_metric[i])] ELSE m3
    IN  m4

\* arr[mask]: boolean-mask indexing keeps the elements whose mask entry is
\* True, in their original order
RECURSIVE ApplyMask(_, _)
ApplyMask(arr, mask) ==
    IF arr = <<>> THEN <<>>
    ELSE IF Head(mask) THEN <<Head(arr)>> \o ApplyMask(Tail(arr), Tail(mask))
         ELSE ApplyMask(Tail(arr), Tail(mask))

ExtractIndices_len(d) == [k \in 1..Len(d) |-> k]
\* indices.append(len(names) - 1) after names.append(...), once per record
ExtractIndices(d) == [k \in 1..Len(d) |-> k - 1]
Column(d, f) == [k \in 1..Len(d) |-> d[k][f]]

\* ------------------------------------------------ regression overlay
\* np.polyfit(x, y, 1): least squares on the column-scaled Vandermonde
\* matrix [x, 1].  With all x equal the matrix has rank 1: a zero column
\* (x = 0) scales to NaN and lstsq raises LinAlgError; any other constant
\* x = c is solved by the minimum-norm solution m = mean(y)/(2c),
\* b = mean(y)/2 with a RankWarning, which is a warning and not an exception.
Polyfit(x, y) ==
    LET n == Len(x)
        Sx == SumSeq(x)
        Sy == SumSeq(y)
        Sxx == SumSeq([i \in 1..n |-> x[i] * x[i]])
        Sxy == SumSeq([i \in 1..n |-> x[i] * y[i]])
        den == n * Sxx - Sx * Sx
    IN  IF den # 0
        THEN LET m == Frac(n * Sxy - Sx * Sy, den)
             IN  [raised |-> FALSE, m |-> m,
                  b |-> Frac(Sy * m[2] - m[1] * Sx, n * m[2])]
        ELSE IF x[1] # 0
        THEN [raised |-> FALSE, m |-> Frac(Sy, 2 * n * x[1]), b |-> Frac(Sy, 2 * n)]
        ELSE [raised |-> TRUE, m |-> FInt(0), b |-> FInt(0)]

\* np.std(r) squared, the population variance (divide by N), of the
\* residuals r[i] / D given by their numerators over a common denominator
Variance(r, D) ==
    LET n == Len(r)
        total == SumSeq(r)
        dev == [i \in 1..n |-> Frac(n * r[i] - total, n * D)]
        sq == FSumSeq([i \in 1..n |-> <<dev[i][1] * dev[i][1], dev[i][2] * dev[i][2]>>])
    IN  Frac(sq[1], n * sq[2])

\* m * x + b over the common denominator D of m and b, as a numerator
Pred(fit, D, v) == fit.m[1] * (D \div fit.m[2]) * v + fit.b[1] * (D \div fit.b[2])
\* x_sorted = np.sort(x); y_trend = m * x_sorted + b;
\* residuals = y - (m * x + b); sigma = np.std(residuals)
Overlay(fit, D, x, y) ==
    LET x_sorted == SortSeq(x, LAMBDA a, c : a < c)
    IN  [x_sorted |-> x_sorted,
         y_trend |-> [i \in 1..Len(x) |-> Frac(Pred(fit, D, x_sorted[i]), D)],
         m |-> fit.m, b |-> fit.b,
         variance |-> Variance([i \in 1..Len(x) |-> y[i] * D - Pred(fit, D, x[i])], D)]
\* the body of the try block: the traces added to the figure, or the
\* exception caught by "except Exception"
Regression(x, y) ==
    LET fit == Polyfit(x, y)
    IN  IF fit.raised THEN None
        ELSE Some(Overlay(fit, (fit.m[2] * fit.b[2]) \div GCD(fit.m[2], fit.b[2]), x, y))

\* GraphPage.plot_scatter: the scatter is always drawn; the overlay only
\* with more than one point and a fit that did not raise
PlotScatter(x, y) ==
    IF Len(x) > 1
    THEN LET r == Regression(x, y)
         IN  [drawn |-> TRUE, overlay |-> r,
              msgs |-> IF r = None THEN {"Error calculating regression"} ELSE {}]
    ELSE [drawn |-> TRUE, overlay |-> None, msgs |-> {}]

\* plot_with_sigma: an empty frame gives a warning and no chart at all
PlotWithSigma(x, y) ==
    IF Len(x) = 0
    THEN [drawn |-> FALSE, overlay |-> None, msgs |-> {"No data available"}]
    ELSE IF Len(x) > 1
    THEN LET r == Regression(x, y)
         IN  [drawn |-> TRUE, overlay |-> r,
              msgs |-> IF r = None THEN {"Error converting data for regression"} ELSE {}]
    ELSE [drawn |-> TRUE, overlay |-> None, msgs |-> {}]

\* --------------------------------------------- filtering and selection
AllShown == [t \in Tiers |-> TRUE]
\* the parts of the state a run of another operation leaves untouched
FetchIdle == resp = <<>> /\ fetch = <<>> /\ result = None
FilterIdle ==
    /\ show = AllShown /\ indices_filtered = <<>> /\ clicked = None
    /\ selected = None /\ evk = 0 /\ frames = <<>>
PlotIdle == x_filtered = <<>> /\ y_filtered = <<>> /\ drawn = FALSE /\ overlay = None

\* the seven plot_with_sigma calls of the web script, one event each
NumCharts == 7

Flip(sh, t) == [sh EXCEPT ![t] = ~sh[t]]

\* GraphImpulseWeight.redraw (x = total_weight, y = total_impulse,
\* filter_metric = total_impulse) / the web chart "Impulse vs Weight"
Filtered(d, sh) ==
    LET mask == BuildMask(Column(d, "totImpulseNs"), sh)
    IN  [x |-> ApplyMask(Column(d, "totalWeightG"), mask),
         y |-> ApplyMask(Column(d, "totImpulseNs"), mask),
         indices |-> ApplyMask(ExtractIndices(d), mask)]

Redraw(sh) ==
    LET f == Filtered(data, sh)
        p == PlotScatter(f.x, f.y)
    IN  /\ indices_filtered' = f.indices
        /\ x_filtered' = f.x
        /\ y_filtered' = f.y
        /\ drawn' = p.drawn
        /\ overlay' = p.overlay
        /\ messages' = p.msgs

\* self.indices_filtered[idx_in_filtered] / filtered_df.iloc[point_index]:
\* the record of the subset's position i
Resolve_dfiloc(indices, i) == i
Resolve(indices, i) == At(indices, i)

\* MotorVisApp.__init__: every page is built by set_data, which redraws
DesktopInit(D) ==
    /\ app = "desktop"
    /\ data \in D
    /\ show = AllShown
    /\ LET f == Filtered(data, AllShown)
           p == PlotScatter(f.x, f.y)
       IN  /\ indices_filtered = f.indices
           /\ x_filtered = f.x
           /\ y_filtered = f.y
           /\ drawn = p.drawn
           /\ overlay = p.overlay
           /\ messages = p.msgs
    /\ clicked = None
    /\ selected = None
    /\ pc = "mainloop"
    /\ evk = 0
    /\ uncaught = "none"
    /\ processed = <<>>
    /\ frames = <<>>
    /\ FetchIdle

\* a tier checkbox: the variable flips, on_toggle -> refresh_charts -> redraw
DesktopToggle ==
    /\ app = "desktop" /\ pc = "mainloop"
    /\ \E t \in Tiers :
          /\ show' = Flip(show, t)
          /\ Redraw(Flip(show, t))
    /\ UNCHANGED <<app, data, clicked, selected, pc, evk, uncaught, processed, frames>>
    /\ UNCHANGED fetchVars

\* GraphPage.on_click on a point of the current scatter: sc.contains reports
\* positions of the points drawn by the last plot_scatter
DesktopClick ==
    /\ app = "desktop" /\ pc = "mainloop" /\ drawn
    /\ \E i \in 0..(Len(x_filtered) - 1) :
          /\ clicked' = Some(i)
          /\ IF InRange(indices_filtered, i) /\ InRange(data, At(indices_filtered, i))
             THEN /\ selected' = Some(Resolve(indices_filtered, i))
                  /\ uncaught' = uncaught
             ELSE /\ selected' = selected
                  /\ uncaught' = "IndexError"
    /\ UNCHANGED <<app, data, show, indices_filtered, x_filtered, y_filtered,
                   drawn, overlay, pc, evk, messages, processed, frames>>
    /\ UNCHANGED fetchVars

\* the web script from the checkboxes to the last chart (lines 208-247)
WebFilterAndPlot(sh) ==
    LET f == Filtered(data, sh)
        p == PlotWithSigma(f.x, f.y)
    IN  /\ show' = sh
        /\ indices_filtered' = f.indices
        /\ x_filtered' = f.x
        /\ y_filtered' = f.y
        /\ drawn' = p.drawn
        /\ overlay' = p.overlay
        /\ messages' = p.msgs
        /\ selected' = None
        /\ evk' = 0
        /\ pc' = "select"

\* the first run of the script: every checkbox defaults to True
WebInit(D) ==
    /\ app = "web"
    /\ data \in D
    /\ show = AllShown
    /\ LET f == Filtered(data, AllShown)
           p == PlotWithSigma(f.x, f.y)
       IN  /\ indices_filtered = f.indices
           /\ x_filtered = f.x
           /\ y_filtered = f.y
           /\ drawn = p.drawn
           /\ overlay = p.overlay
           /\ messages = IF data = <<>> THEN {} ELSE p.msgs
    /\ clicked = None
    /\ selected = None
    /\ pc = IF data = <<>> THEN "idle" ELSE "select"
    /\ evk = 0
    /\ uncaught = "none"
    /\ processed = <<>>
    /\ frames = <<>>
    /\ FetchIdle

\* what one chart can report: None (no chart, no selection, no points) or the
\* point_index of its first selected point; a selection kept from an earlier
\* run may index past the current subset
EventChoices == IF drawn THEN {None} \cup {Some(i) : i \in 0..(Len(data) - 1)} ELSE {None}

\* one iteration of "for event in events" (lines 251-259) for the event ev;
\* leaving the loop runs the sidebar and ends the script run
WebHandleEventWith(ev) ==
    /\ IF ev # None /\ InRange(indices_filtered, ev[1])
       THEN /\ selected' = Some(Resolve(indices_filtered, ev[1]))
            /\ pc' = "idle"
            /\ UNCHANGED <<evk, messages>>
       ELSE /\ messages' = IF ev # None
                           THEN messages \cup {"Error retrieving selection"}
                           ELSE messages
            /\ evk' = evk + 1
            /\ pc' = IF evk + 1 = NumCharts THEN "idle" ELSE "select"
            /\ selected' = selected
    /\ UNCHANGED <<app, data, show, indices_filtered, x_filtered, y_filtered,
                   drawn, overlay, clicked, uncaught, processed, frames>>
    /\ UNCHANGED fetchVars

WebHandleEvent ==
    /\ app = "web" /\ pc = "select"
    /\ \E ev \in EventChoices : WebHandleEventWith(ev)

\* a checkbox or a chart selection changes: Streamlit reruns the script
WebRerun ==
    /\ app = "web" /\ pc = "idle" /\ data # <<>>
    /\ \E sh \in {show} \cup {Flip(show, t) : t \in Tiers} : WebFilterAndPlot(sh)
    /\ UNCHANGED <<app, data, clicked, uncaught, processed, frames>>
    /\ UNCHANGED fetchVars

FilterInit == DesktopInit(SeqsUpTo(Records, MaxRecords)) \/ WebInit(SeqsUpTo(Records, MaxRecords))
FilterNext == DesktopToggle \/ DesktopClick \/ WebHandleEvent \/ WebRerun
SpecFilter == FilterInit /\ [][FilterNext]_vars

\* the same programs over a one-record dataset whose impulse is near a boundary
TierInit == DesktopInit(TierData) \/ WebInit(TierData)
SpecTier == TierInit /\ [][FilterNext]_vars

\* ------------------------------------------------- plotting alone
\* plot_scatter / plot_with_sigma over any two equal-length columns
MaxPoints == 3
XValues == {0, 2, 5}
YValues == {1, 2, 3}
PointLists == SeqsUpTo(XValues \X YValues, MaxPoints)

RegressInit ==
    /\ app \in {"desktop", "web"}
    /\ \E pts \in PointLists :
          /\ x_filtered = [i \in 1..Len(pts) |-> pts[i][1]]
          /\ y_filtered = [i \in 1..Len(pts) |-> pts[i][2]]
    /\ drawn = FALSE
    /\ overlay = None
    /\ messages = {}
    /\ pc = "plot"
    /\ uncaught = "none"
    /\ data = <<>>
    /\ processed = <<>>
    /\ FilterIdle
    /\ FetchIdle

PlotScatterCall ==
    /\ app = "desktop" /\ pc = "plot"
    /\ LET p == PlotScatter(x_filtered, y_filtered)
       IN  drawn' = p.drawn /\ overlay' = p.overlay /\ messages' = p.msgs
    /\ pc' = "plotted"
    /\ UNCHANGED <<app, x_filtered, y_filtered, uncaught>>
    /\ UNCHANGED <<filterVars, loadVars, fetchVars>>

PlotWithSigmaCall ==
    /\ app = "web" /\ pc = "plot"
    /\ LET p == PlotWithSigma(x_filtered, y_filtered)
       IN  drawn' = p.drawn /\ overlay' = p.overlay /\ messages' = p.msgs
    /\ pc' = "plotted"
    /\ UNCHANGED <<app, x_filtered, y_filtered, uncaught>>
    /\ UNCHANGED <<filterVars, loadVars, fetchVars>>

RegressNext == PlotScatterCall \/ PlotWithSigmaCall
SpecRegress == RegressInit /\ [][RegressNext]_vars

\* ------------------------------------------------- loading the records
\* A JSON value is [num |-> TRUE, v |-> n] for the number n, or
\* [num |-> FALSE, v |-> id] for anything else (a string, null).  A motor is
\* a function from the keys it has to their values.
MaxBatch == 2
Num(n) == [num |-> TRUE, v |-> n]
Str(id) == [num |-> FALSE, v |-> id]
NumericFields ==
    {"diameter", "length", "avgThrustN", "totImpulseNs", "totalWeightG",
     "specificImpulseSec"}
RequiredFields == NumericFields \cup {"commonName", "manufacturer"}

Has(m, k) == k \in DOMAIN m
IsNum(m, k) == Has(m, k) /\ m[k].num
NotNum(m, k) == Has(m, k) /\ ~m[k].num
\* m.get(k, default)
Get(m, k, default) == IF Has(m, k) THEN m[k] ELSE default

BaseMotor(avg) ==
    [k \in RequiredFields |->
        CASE k = "diameter" -> Num(2)
          [] k = "length" -> Num(3)
          [] k = "avgThrustN" -> Num(avg)
          [] k = "totImpulseNs" -> Num(20)
          [] k = "totalWeightG" -> Num(10)
          [] k = "specificImpulseSec" -> Num(100)
          [] k = "commonName" -> Str(1)
          [] k = "manufacturer" -> Str(2)]
WithBurn(m, b) == [k \in DOMAIN m \cup {"burnTimeS"} |-> IF k = "burnTimeS" THEN Num(b) ELSE m[k]]
Without(m, f) == [k \in DOMAIN m \ {f} |-> m[k]]
NonNumeric(m, f) == [m EXCEPT ![f] = Str(0)]

ValidMotors ==
    {BaseMotor(avg) : avg \in {0, 10}}
        \cup {WithBurn(BaseMotor(avg), b) : avg \in {0, 10}, b \in {0, 3}}
DefectMotors ==
    {Without(BaseMotor(10), f) : f \in RequiredFields}
        \cup {NonNumeric(BaseMotor(10), f) : f \in NumericFields}
        \cup {NonNumeric(WithBurn(BaseMotor(10), 3), f) : f \in {"avgThrustN", "totImpulseNs"}}
Batches == SeqsUpTo(ValidMotors \cup DefectMotors, MaxBatch)

\* the first check of an ordered list of <<fails, exception>> that fails:
\* its position and its exception, or position 0 and "none"
RECURSIVE FirstFailure(_, _)
FirstFailure(checks, k) ==
    IF k > Len(checks) THEN [at |-> 0, exc |-> "none"]
    ELSE IF checks[k][1] THEN [at |-> k, exc |-> checks[k][2]]
    ELSE FirstFailure(checks, k + 1)

\* vol = 3.14159 * (r * r) * l with r = d / 2
Volume(d, l) == Frac(314159 * d * d * l, 100000 * 4)
\* the guard of the division
AvgPositive(m) == IsNum(m, "avgThrustN") /\ m["avgThrustN"].v > 0
\* m['totImpulseNs'] / m['avgThrustN']
ImpulseOverThrust(m) ==
    IF IsNum(m, "totImpulseNs") /\ IsNum(m, "avgThrustN") /\ m["avgThrustN"].v # 0
    THEN Frac(m["totImpulseNs"].v, m["avgThrustN"].v)
    ELSE FInt(0)
DividesByZero(m) ==
    IsNum(m, "totImpulseNs") /\ IsNum(m, "avgThrustN") /\ m["avgThrustN"].v = 0

\* load_data, lines 31-34: burn_time = m.get('burnTimeS', 0), replaced by
\* the quotient when it is 0 and the average thrust is positive
WebBurnIsZero(m) == Get(m, "burnTimeS", Num(0)).num /\ Get(m, "burnTimeS", Num(0)).v = 0
WebBurnTime(m) ==
    IF WebBurnIsZero(m) /\ AvgPositive(m) THEN ImpulseOverThrust(m)
    ELSE FInt(Get(m, "burnTimeS", Num(0)).v)

\* visualize.py line 44: m.get('burnTimeS', <quotient if thrust > 0 else 0>)
DesktopBurnTime(m) ==
    IF Has(m, "burnTimeS") THEN FInt(m["burnTimeS"].v)
    ELSE IF AvgPositive(m) THEN ImpulseOverThrust(m) ELSE FInt(0)

\* load_data, one iteration (lines 24-49), in evaluation order
WebChecks(m) ==
    << <<~Has(m, "diameter"), "KeyError">>,
       <<~Has(m, "length"), "KeyError">>,
       <<NotNum(m, "diameter"), "TypeError">>,
       <<NotNum(m, "length"), "TypeError">>,
       <<WebBurnIsZero(m) /\ ~Has(m, "avgThrustN"), "KeyError">>,
       <<WebBurnIsZero(m) /\ NotNum(m, "avgThrustN"), "TypeError">>,
       <<WebBurnIsZero(m) /\ AvgPositive(m) /\ ~Has(m, "totImpulseNs"), "KeyError">>,
       <<WebBurnIsZero(m) /\ AvgPositive(m) /\ NotNum(m, "totImpulseNs"), "TypeError">>,
       <<WebBurnIsZero(m) /\ AvgPositive(m) /\ DividesByZero(m), "ZeroDivisionError">>,
       <<~Has(m, "commonName"), "KeyError">>,
       <<~Has(m, "manufacturer"), "KeyError">>,
       <<~Has(m, "avgThrustN"), "KeyError">>,
       <<~Has(m, "totImpulseNs"), "KeyError">>,
       <<~Has(m, "totalWeightG"), "KeyError">>,
       <<~Has(m, "specificImpulseSec"), "KeyError">> >>

WebRow(m) ==
    [id |-> Get(m, "motorId", Get(m, "id", Str(0))),
     Name |-> m["commonName"],
     Manufacturer |-> m["manufacturer"],
     Thrust |-> m["avgThrustN"],
     Impulse |-> m["totImpulseNs"],
     Weight |-> m["totalWeightG"],
     Diameter |-> m["diameter"],
     Length |-> m["length"],
     Volume |-> Volume(m["diameter"].v, m["length"].v),
     Isp |-> m["specificImpulseSec"],
     BurnTime |-> WebBurnTime(m),
     Label |-> <<m["manufacturer"], m["commonName"]>>]

\* visualize.py, one iteration (lines 32-50), in evaluation order; a list
\* is appended to when every check up to its append has passed
DesktopChecks(m) ==
    << <<~Has(m, "avgThrustN"), "KeyError">>,
       <<~Has(m, "totImpulseNs"), "KeyError">>,
       <<~Has(m, "totalWeightG"), "KeyError">>,
       <<~Has(m, "diameter"), "KeyError">>,
       <<~Has(m, "length"), "KeyError">>,
       <<NotNum(m, "diameter"), "TypeError">>,
       <<NotNum(m, "length"), "TypeError">>,
       <<~Has(m, "specificImpulseSec"), "KeyError">>,
       <<NotNum(m, "avgThrustN"), "TypeError">>,
       <<AvgPositive(m) /\ NotNum(m, "totImpulseNs"), "TypeError">>,
       <<AvgPositive(m) /\ DividesByZero(m), "ZeroDivisionError">>,
       <<~Has(m, "commonName"), "KeyError">>,
       <<~Has(m, "manufacturer"), "KeyError">> >>

\* the check after which each list is appended to
AppendedAfter ==
    [avg_thrust |-> 1, total_impulse |-> 2, total_weight |-> 3, volumes |-> 7,
     specific_impulse |-> 8, burn_times |-> 11, diameters |-> 11, lengths |-> 11,
     names |-> 12, manufacturers |-> 13, indices |-> 13]
ListNames == DOMAIN AppendedAfter
EmptyLists == [n \in ListNames |-> <<>>]

DesktopValue_lennames(m, lists, n) ==
    CASE n = "avg_thrust" -> m["avgThrustN"]
      [] n = "total_impulse" -> m["totImpulseNs"]
      [] n = "total_weight" -> m["totalWeightG"]
      [] n = "volumes" -> Volume(m["diameter"].v, m["length"].v)
      [] n = "specific_impulse" -> m["specificImpulseSec"]
      [] n = "burn_times" -> DesktopBurnTime(m)
      [] n = "diameters" -> m["diameter"]
      [] n = "lengths" -> m["length"]
      [] n = "names" -> m["commonName"]
      [] n = "manufacturers" -> m["manufacturer"]
      [] n = "indices" -> Len(lists["names"]) + 1
\* the value appended to each list; indices.append(len(names) - 1) comes
\* after names.append, so it is the length of names before the iteration
DesktopValue(m, lists, n) ==
    CASE n = "avg_thrust" -> m["avgThrustN"]
      [] n = "total_impulse" -> m["totImpulseNs"]
      [] n = "total_weight" -> m["totalWeightG"]
      [] n = "volumes" -> Volume(m["diameter"].v, m["length"].v)
      [] n = "specific_impulse" -> m["specificImpulseSec"]
      [] n = "burn_times" -> DesktopBurnTime(m)
      [] n = "diameters" -> m["diameter"]
      [] n = "lengths" -> m["length"]
      [] n = "names" -> m["commonName"]
      [] n = "manufacturers" -> m["manufacturer"]
      [] n = "indices" -> Len(lists["names"])

DesktopAppend(m, lists) ==
    LET fail == FirstFailure(DesktopChecks(m), 1)
    IN  [n \in ListNames |->
            IF fail.at = 0 \/ AppendedAfter[n] < fail.at
            THEN Append(lists[n], DesktopValue(m, lists, n))
            ELSE lists[n]]

LoadInit ==
    /\ app \in {"desktop", "web"}
    /\ data \in Batches
    /\ processed = IF app = "web" THEN <<>> ELSE EmptyLists
    /\ pc = "open"
    /\ messages = {}
    /\ uncaught = "none"
    /\ FilterIdle
    /\ PlotIdle
    /\ FetchIdle

LoopIndex == IF app = "web" THEN Len(processed) ELSE Len(processed["avg_thrust"])

\* open('motors_all.json') and json.load: the file is there or it is not
OpenFile ==
    /\ pc = "open"
    /\ \E found \in BOOLEAN :
          IF found
          THEN pc' = "loop" /\ messages' = messages
          ELSE /\ pc' = IF app = "web" THEN "nofile" ELSE "exited"
               /\ messages' = {"Data file 'motors_all.json' not found"}
    /\ UNCHANGED <<app, data, processed, uncaught>>
    /\ UNCHANGED <<filterVars, plotVars, fetchVars>>

\* one iteration of "for m in data"
NormalizeRecord ==
    /\ pc = "loop" /\ LoopIndex < Len(data)
    /\ LET m == data[LoopIndex + 1]
           fail == FirstFailure(IF app = "web" THEN WebChecks(m) ELSE DesktopChecks(m), 1)
       IN  /\ processed' = IF app = "web"
                           THEN IF fail.at = 0 THEN Append(processed, WebRow(m)) ELSE processed
                           ELSE DesktopAppend(m, processed)
           /\ uncaught' = fail.exc
           /\ pc' = IF fail.at = 0 THEN "loop" ELSE "raised"
    /\ UNCHANGED <<app, data, messages>>
    /\ UNCHANGED <<filterVars, plotVars, fetchVars>>

\* the loop ends: load_data returns the frame / the module goes on to the GUI
LoadReturn ==
    /\ pc = "loop" /\ LoopIndex = Len(data)
    /\ pc' = "returned"
    /\ UNCHANGED <<app, data, processed, messages, uncaught>>
    /\ UNCHANGED <<filterVars, plotVars, fetchVars>>

LoadNext == OpenFile \/ NormalizeRecord \/ LoadReturn
SpecLoad == LoadInit /\ [][LoadNext]_vars

\* ------------------------------------------------- fetch_thrust_curve
\* Text is a sequence of character codes (bytes before decoding).
MaxLines == 3
MaxEntries == 2

IsSpace(c) == c \in {9, 10, 11, 12, 13, 28, 29, 30, 31, 32}
IsDigit(c) == c >= 48 /\ c <= 57

\* the value of a base64 character, 64 for any other character
B64Value(c) ==
    IF c >= 65 /\ c <= 90 THEN c - 65
    ELSE IF c >= 97 /\ c <= 122 THEN c - 71
    ELSE IF IsDigit(c) THEN c + 4
    ELSE IF c = 43 THEN 62
    ELSE IF c = 47 THEN 63
    ELSE 64

\* binascii.a2b_base64 (not strict): other characters are skipped, a
\* complete pad ends the input, a dangling quad is an error
RECURSIVE A2bBase64(_, _, _, _, _, _)
A2bBase64(s, i, quad_pos, leftchar, pads, out) ==
    IF i > Len(s)
    THEN [ok |-> quad_pos = 0, bytes |-> IF quad_pos = 0 THEN out ELSE <<>>]
    ELSE IF s[i] = 61
    THEN IF quad_pos >= 2 /\ quad_pos + pads + 1 >= 4
         THEN [ok |-> TRUE, bytes |-> out]
         ELSE A2bBase64(s, i + 1, quad_pos, leftchar,
                        IF quad_pos >= 2 THEN pads + 1 ELSE pads, out)
    ELSE IF B64Value(s[i]) = 64
    THEN A2bBase64(s, i + 1, quad_pos, leftchar, pads, out)
    ELSE LET v == B64Value(s[i])
         IN  CASE quad_pos = 0 -> A2bBase64(s, i + 1, 1, v, 0, out)
               [] quad_pos = 1 ->
                    A2bBase64(s, i + 1, 2, v % 16, 0, Append(out, leftchar * 4 + v \div 16))
               [] quad_pos = 2 ->
                    A2bBase64(s, i + 1, 3, v % 4, 0, Append(out, leftchar * 16 + v \div 4))
               [] quad_pos = 3 ->
                    A2bBase64(s, i + 1, 0, 0, 0, Append(out, leftchar * 64 + v))

\* base64.b64decode(rasp_data): a str with a non-ASCII character is refused
B64Decode(s) ==
    IF \E i \in 1..Len(s) : s[i] >= 128 THEN [ok |-> FALSE, bytes |-> <<>>]
    ELSE A2bBase64(s, 1, 0, 0, 0, <<>>)

\* decoded_bytes.decode('utf-8', errors='ignore') for ASCII text with stray
\* bytes that no UTF-8 sequence contains: the stray bytes are dropped
Utf8Ignore(bytes) == SelectSeq(bytes, LAMBDA b : b < 128)

\* decoded_str.splitlines() for the line ends \n, \r and \r\n
RECURSIVE SplitLinesFrom(_, _, _)
SplitLinesFrom(text, cur, acc) ==
    IF text = <<>> THEN IF cur = <<>> THEN acc ELSE Append(acc, cur)
    ELSE IF Head(text) = 13 /\ Len(text) >= 2 /\ text[2] = 10
    THEN SplitLinesFrom(Tail(Tail(text)), <<>>, Append(acc, cur))
    ELSE IF Head(text) \in {10, 13}
    THEN SplitLinesFrom(Tail(text), <<>>, Append(acc, cur))
    ELSE SplitLinesFrom(Tail(text), Append(cur, Head(text)), acc)
SplitLines(text) == SplitLinesFrom(text, <<>>, <<>>)

\* line.strip()
RECURSIVE LStrip(_)
LStrip(t) == IF t # <<>> /\ IsSpace(Head(t)) THEN LStrip(Tail(t)) ELSE t
RECURSIVE RStrip(_)
RStrip(t) == IF t # <<>> /\ IsSpace(t[Len(t)]) THEN RStrip(SubSeq(t, 1, Len(t) - 1)) ELSE t
Strip(t) == RStrip(LStrip(t))

\* line.split()
RECURSIVE SplitFrom(_, _, _)
SplitFrom(t, cur, acc) ==
    IF t = <<>> THEN IF cur = <<>> THEN acc ELSE Append(acc, cur)
    ELSE IF IsSpace(Head(t))
    THEN SplitFrom(Tail(t), <<>>, IF cur = <<>> THEN acc ELSE Append(acc, cur))
    ELSE SplitFrom(Tail(t), Append(cur, Head(t)), acc)
Split(t) == SplitFrom(t, <<>>, <<>>)

\* float(token) for tokens written with a sign, digits and a decimal point
\* (no exponent, no inf/nan, no underscore): None stands for ValueError
RECURSIVE DigitsValue(_, _)
DigitsValue(t, acc) ==
    IF t = <<>> THEN acc
    ELSE DigitsValue(Tail(t), IF IsDigit(Head(t)) THEN acc * 10 + (Head(t) - 48) ELSE acc)
RECURSIVE Pow10(_)
Pow10(n) == IF n = 0 THEN 1 ELSE 10 * Pow10(n - 1)
Float(tok) ==
    LET signed == tok # <<>> /\ Head(tok) \in {43, 45}
        body == IF signed THEN Tail(tok) ELSE tok
        dots == {i \in 1..Len(body) : body[i] = 46}
        digits == {i \in 1..Len(body) : IsDigit(body[i])}
        decimals == IF dots = {} THEN 0
                    ELSE Cardinality({i \in digits : \A d \in dots : i > d})
        sign == IF signed /\ Head(tok) = 45 THEN -1 ELSE 1
    IN  IF /\ digits # {}
           /\ Cardinality(dots) <= 1
           /\ dots \cup digits = 1..Len(body)
        THEN Some(Frac(sign * DigitsValue(body, 0), Pow10(decimals)))
        ELSE None

\* the try block of the loop (lines 131-137): what is appended for a data line
DataPoint_timefirst(parts) ==
    IF Len(parts) >= 1 /\ Float(parts[1]) # None
    THEN [times |-> Float(parts[1]),
          thrusts |-> IF Len(parts) >= 2 THEN Float(parts[2]) ELSE None]
    ELSE [times |-> None, thrusts |-> None]
DataPoint(parts) ==
    IF Len(parts) >= 2 /\ Float(parts[1]) # None /\ Float(parts[2]) # None
    THEN [times |-> Float(parts[1]), thrusts |-> Float(parts[2])]
    ELSE [times |-> None, thrusts |-> None]

\* one iteration of "for line in lines" (lines 113-137) on the locals f
ParseStep(f, raw) ==
    LET line == Strip(raw)
        parts == Split(line)
        p == DataPoint(parts)
    IN  IF line = <<>> \/ Head(line) = 59 THEN f
        ELSE IF ~f.header_parsed
        THEN [f EXCEPT !.header_parsed = Len(parts) >= 3]
        ELSE [f EXCEPT !.times = f.times \o p.times, !.thrusts = f.thrusts \o p.thrusts]

\* lines 139-142
Curve_evenempty(times, thrusts) == Some([times |-> times, thrusts |-> thrusts])
Curve(times, thrusts) ==
    IF times = <<>> THEN None ELSE Some([times |-> times, thrusts |-> thrusts])

\* res.get('data'): None for a missing key and for null
GetData(res) == IF res.data.has /\ ~res.data.null THEN Some(res.data.s) ELSE None
IsRasp(res) == res.format = Some("RASP")
FirstRasp(results) ==
    IF \E i \in 1..Len(results) : IsRasp(results[i])
    THEN Some(CHOOSE i \in 1..Len(results) :
                 IsRasp(results[i]) /\ \A j \in 1..(i - 1) : ~IsRasp(results[j]))
    ELSE None

\* lines 84-93: the data of the first RASP entry, else of the first entry
SelectData(results) ==
    LET rasp_data == IF FirstRasp(results) # None
                     THEN GetData(results[FirstRasp(results)[1]]) ELSE None
    IN  IF rasp_data = None /\ results # <<>>
        THEN IF results[1].data.has THEN GetData(results[1]) ELSE rasp_data
        ELSE rasp_data

\* ---- inputs
\* the service's base64 text of a byte string
B64Char(v) ==
    IF v < 26 THEN v + 65 ELSE IF v < 52 THEN v + 71 ELSE IF v < 62 THEN v - 4
    ELSE IF v = 62 THEN 43 ELSE 47
RECURSIVE B64Encode(_)
B64Encode(b) ==
    IF b = <<>> THEN <<>>
    ELSE IF Len(b) = 1
    THEN <<B64Char(b[1] \div 4), B64Char((b[1] % 4) * 16), 61, 61>>
    ELSE IF Len(b) = 2
    THEN <<B64Char(b[1] \div 4), B64Char((b[1] % 4) * 16 + b[2] \div 16),
           B64Char((b[2] % 16) * 4), 61>>
    ELSE <<B64Char(b[1] \div 4), B64Char((b[1] % 4) * 16 + b[2] \div 16),
           B64Char((b[2] % 16) * 4 + b[3] \div 64), B64Char(b[3] % 64)>>
         \o B64Encode(SubSeq(b, 4, Len(b)))

RECURSIVE JoinLines(_)
JoinLines(ls) ==
    IF ls = <<>> THEN <<>>
    ELSE IF Len(ls) = 1 THEN ls[1]
    ELSE ls[1] \o <<10>> \o JoinLines(Tail(ls))

L_blank == <<>>  \* ""
L_comment == <<59, 32, 49, 32, 50>>  \* "; 1 2"
L_header == <<84, 32, 50, 32, 51>>  \* "T 2 3", a header
L_zero == <<48, 32, 48>>  \* "0 0"
L_tenth == <<46, 49, 32, 53>>  \* ".1 5"
L_badsecond == <<49, 32, 120>>  \* "1 x"
L_badfirst == <<120, 32, 49>>  \* "x 1"
L_single == <<50>>  \* "2"
L_three == <<32, 51, 32, 52, 32, 53, 32>>  \* " 3 4 5 ", padded, with a third token
L_badbyte == <<54, 255, 32, 55>>  \* "6", the byte 0xFF, " 7"
LineSet ==
    {L_blank, L_comment, L_header, L_zero, L_tenth, L_badsecond, L_badfirst,
     L_single, L_three, L_badbyte}

Absent == [has |-> FALSE, null |-> FALSE, s |-> <<>>]
Null == [has |-> TRUE, null |-> TRUE, s |-> <<>>]
Text(s) == [has |-> TRUE, null |-> FALSE, s |-> s]
DataValues ==
    {Absent, Null, Text(<<>>),
     Text(<<81, 81>>),              \* "QQ": incorrect padding
     Text(<<61, 61, 61, 61>>),      \* "====": decodes to no bytes
     Text(B64Encode(L_header)),
     Text(B64Encode(JoinLines(<<L_header, L_zero, L_tenth>>))),
     Text(B64Encode(JoinLines(<<L_header, L_three>>)))}
Entries == [format : {Some("RASP"), Some("RockSim")}, data : DataValues]
Responses ==
    {[error |-> TRUE, has_results |-> FALSE, results |-> <<>>],
     [error |-> FALSE, has_results |-> FALSE, results |-> <<>>]}
        \cup {[error |-> FALSE, has_results |-> TRUE, results |-> r] :
                 r \in SeqsUpTo(Entries, MaxEntries)}
\* one RASP entry for every text of up to MaxLines lines
BlobResponses ==
    {[error |-> FALSE, has_results |-> TRUE,
      results |-> <<[format |-> Some("RASP"), data |-> Text(B64Encode(JoinLines(ls)))]>>] :
         ls \in SeqsUpTo(LineSet, MaxLines)}

NoLocals ==
    [rasp_data |-> None, lines |-> <<>>, next |-> 1, header_parsed |-> FALSE,
     times |-> <<>>, thrusts |-> <<>>]

FetchInit ==
    /\ app = "web"
    /\ resp \in Responses \cup BlobResponses
    /\ fetch = NoLocals
    /\ result = None
    /\ pc = "request"
    /\ messages = {}
    /\ uncaught = "none"
    /\ data = <<>>
    /\ processed = <<>>
    /\ FilterIdle
    /\ PlotIdle

\* lines 75-96: the request, results, the choice of the blob; an exception
\* anywhere in the function is caught at line 144
FetchSelect ==
    /\ pc = "request"
    /\ IF resp.error
       THEN /\ messages' = {"Error fetching thrust curve"}
            /\ pc' = "returned"
            /\ fetch' = fetch
       ELSE LET results == IF resp.has_results THEN resp.results ELSE <<>>
                rasp_data == SelectData(results)
            IN  /\ messages' = messages
                /\ fetch' = [fetch EXCEPT !.rasp_data =
                                IF results = <<>> THEN None ELSE rasp_data]
                /\ pc' = IF results = <<>> \/ rasp_data = None \/ rasp_data = Some(<<>>)
                         THEN "returned" ELSE "decode"
    /\ result' = None
    /\ UNCHANGED <<app, resp, uncaught>>
    /\ UNCHANGED <<filterVars, plotVars, loadVars>>

\* lines 99-111
FetchDecode ==
    /\ pc = "decode"
    /\ LET d == B64Decode(fetch.rasp_data[1])
       IN  IF d.ok
           THEN /\ fetch' = [fetch EXCEPT !.lines = SplitLines(Utf8Ignore(d.bytes))]
                /\ pc' = "parse"
                /\ messages' = messages
           ELSE /\ fetch' = fetch
                /\ pc' = "returned"
                /\ messages' = {"Error fetching thrust curve"}
    /\ UNCHANGED <<app, resp, result, uncaught>>
    /\ UNCHANGED <<filterVars, plotVars, loadVars>>

\* one iteration of the loop over lines
ParseLine ==
    /\ pc = "parse" /\ fetch.next <= Len(fetch.lines)
    /\ fetch' = [ParseStep(fetch, fetch.lines[fetch.next]) EXCEPT !.next = fetch.next + 1]
    /\ UNCHANGED <<app, resp, result, pc, messages, uncaught>>
    /\ UNCHANGED <<filterVars, plotVars, loadVars>>

\* lines 139-142
FetchReturn ==
    /\ pc = "parse" /\ fetch.next > Len(fetch.lines)
    /\ result' = Curve(fetch.times, fetch.thrusts)
    /\ pc' = "returned"
    /\ UNCHANGED <<app, resp, fetch, messages, uncaught>>
    /\ UNCHANGED <<filterVars, plotVars, loadVars>>

FetchNext == FetchSelect \/ FetchDecode \/ ParseLine \/ FetchReturn
SpecFetch == FetchInit /\ [][FetchNext]_vars

\* ------------------------------------- the seven pages of the viewer
\* visualize.py from the extraction loop to the main loop: every GraphPage
\* object keeps the arrays given to set_data and what its last redraw left.
\* x_filtered, y_filtered, drawn, overlay and indices_filtered are the axes
\* of the page GraphImpulseWeight, trend traces included; the traces of the
\* other pages are a function of their x and y and are not carried.
PageColumns ==
    [GraphThrustWeight |-> <<"total_weight", "avg_thrust">>,
     GraphThrustSize |-> <<"volumes", "avg_thrust">>,
     GraphImpulseWeight |-> <<"total_weight", "total_impulse">>,
     GraphImpulseSize |-> <<"volumes", "total_impulse">>,
     GraphIsp |-> <<"total_impulse", "specific_impulse">>,
     GraphDiameterImpulse |-> <<"diameters", "total_impulse">>,
     GraphBurnTimeImpulse |-> <<"burn_times", "total_impulse">>]
PageNames == DOMAIN PageColumns

\* a valid motor for each record of Records
PageMotor(r) ==
    [BaseMotor(10) EXCEPT !["totImpulseNs"] = Num(r.totImpulseNs),
                          !["totalWeightG"] = Num(r.totalWeightG)]
PageMotors == {PageMotor(r) : r \in Records}

\* the module-level lists after the extraction loop over the first k records
RECURSIVE ExtractLists(_, _)
ExtractLists(d, k) ==
    IF k = 0 THEN EmptyLists ELSE DesktopAppend(d[k], ExtractLists(d, k - 1))

Values(col) == [k \in 1..Len(col) |-> col[k].v]
\* labels = [f"{n} ({m})" for n, m in zip(names, manufacturers)]
Labels(lists) ==
    [k \in 1..Len(lists["names"]) |-> <<lists["names"][k], lists["manufacturers"][k]>>]

\* GraphPage.set_data before its call of redraw
SetData(lists, page) ==
    [x_data |-> lists[PageColumns[page][1]],
     y_data |-> lists[PageColumns[page][2]],
     filter_metric |-> Values(lists["total_impulse"]),
     labels_data |-> Labels(lists),
     indices_data |-> lists["indices"],
     x |-> <<>>, y |-> <<>>, names |-> <<>>, indices_filtered |-> <<>>]

PageRedraw_keepempty(f, sh) ==
    LET mask == BuildMask(f.filter_metric, sh)
    IN  IF \A i \in 1..Len(mask) : ~mask[i] THEN f
        ELSE [f EXCEPT !.x = ApplyMask(f.x_data, mask),
                       !.y = ApplyMask(f.y_data, mask),
                       !.names = ApplyMask(f.labels_data, mask),
                       !.indices_filtered = ApplyMask(f.indices_data, mask)]
\* GraphPage.redraw on the fields f of a page: the mask is built from the
\* page's full filter_metric and applied to its full arrays
PageRedraw(f, sh) ==
    LET mask == BuildMask(f.filter_metric, sh)
    IN  [f EXCEPT !.x = ApplyMask(f.x_data, mask),
                  !.y = ApplyMask(f.y_data, mask),
                  !.names = ApplyMask(f.labels_data, mask),
                  !.indices_filtered = ApplyMask(f.indices_data, mask)]

\* the axes of GraphImpulseWeight after its redraw: plot_scatter on its points
ImpulseWeightAxes(f) ==
    LET p == PlotScatter(Values(f.x), Values(f.y))
    IN  [x |-> Values(f.x), y |-> Values(f.y), indices |-> f.indices_filtered,
         drawn |-> p.drawn, overlay |-> p.overlay, msgs |-> p.msgs]

\* the extraction loop, then MotorVisApp.__init__: every page is built by
\* set_data, which redraws with all four variables True
PagesInit ==
    /\ app = "desktop"
    /\ data \in SeqsUpTo(PageMotors, MaxRecords)
    /\ processed = ExtractLists(data, Len(data))
    /\ show = AllShown
    /\ frames = [page \in PageNames |-> PageRedraw(SetData(processed, page), AllShown)]
    /\ LET a == ImpulseWeightAxes(frames["GraphImpulseWeight"])
       IN  /\ indices_filtered = a.indices
           /\ x_filtered = a.x
           /\ y_filtered = a.y
           /\ drawn = a.drawn
           /\ overlay = a.overlay
           /\ messages = a.msgs
    /\ clicked = None
    /\ selected = None
    /\ pc = "mainloop"
    /\ evk = 0
    /\ uncaught = "none"
    /\ FetchIdle

\* a tier checkbox: the variable flips, on_toggle -> refresh_charts ->
\* redraw of every page in self.frames
PagesToggle ==
    /\ app = "desktop" /\ pc = "mainloop"
    /\ \E t \in Tiers :
          /\ show' = Flip(show, t)
          /\ frames' = [page \in PageNames |-> PageRedraw(frames[page], Flip(show, t))]
    /\ LET a == ImpulseWeightAxes(frames'["GraphImpulseWeight"])
       IN  /\ indices_filtered' = a.indices
           /\ x_filtered' = a.x
           /\ y_filtered' = a.y
           /\ drawn' = a.drawn
           /\ overlay' = a.overlay
           /\ messages' = a.msgs
    /\ UNCHANGED <<app, data, clicked, selected, pc, evk, uncaught, processed>>
    /\ UNCHANGED fetchVars

\* GraphPage.on_click on a point of the scatter of one of the pages
PagesClick ==
    /\ app = "desktop" /\ pc = "mainloop"
    /\ \E page \in PageNames :
       \E i \in 0..(Len(frames[page].x) - 1) :
          /\ clicked' = Some(i)
          /\ IF /\ InRange(frames[page].indices_filtered, i)
                /\ InRange(data, At(frames[page].indices_filtered, i))
             THEN /\ selected' = Some(Resolve(frames[page].indices_filtered, i))
                  /\ uncaught' = uncaught
             ELSE /\ selected' = selected
                  /\ uncaught' = "IndexError"
    /\ UNCHANGED <<app, data, show, indices_filtered, x_filtered, y_filtered,
                   drawn, overlay, pc, evk, messages, processed, frames>>
    /\ UNCHANGED fetchVars

PagesNext == PagesToggle \/ PagesClick
SpecPages == PagesInit /\ [][PagesNext]_vars

\* ------------------------------------------------------------ claims
Only(t) == [u \in Tiers |-> u = t]
Kept(d, sh) == Filtered(d, sh).indices
Count(s, v) == Cardinality({j \in 1..Len(s) : s[j] = v})

\* C1: every impulse falls in exactly one of the four tiers of the filter
\* mask (shown alone, exactly one tier keeps the record), and 160, 640 and
\* 5120 belong to the lower tier.
C1_TierPartition ==
    \A k \in 1..Len(data) :
        LET v == data[k].totImpulseNs
        IN  /\ Cardinality({t \in Tiers : Count(Kept(data, Only(t)), k - 1) = 1}) = 1
            /\ v = 160 => Count(Kept(data, Only("low")), k - 1) = 1
            /\ v = 640 => Count(Kept(data, Only("l1")), k - 1) = 1
            /\ v = 5120 => Count(Kept(data, Only("l2")), k - 1) = 1
            /\ v <= 160 <=> Count(Kept(data, Only("low")), k - 1) = 1
            /\ v > 5120 <=> Count(Kept(data, Only("l3")), k - 1) = 1

\* a boundary record shown by its lower tier alone
C1_Witness ==
    /\ Len(data) = 1 /\ data[1].totImpulseNs = 160
    /\ show = Only("low") /\ indices_filtered = <<0>>

\* C2: the plotted subset and the index map have the same length, the index
\* map is strictly increasing, and original[IndexMap[i]] = filtered[i].
C2_IndexMapRoundTrip ==
    /\ Len(x_filtered) = Len(indices_filtered)
    /\ Len(y_filtered) = Len(indices_filtered)
    /\ \A i \in 1..Len(indices_filtered) :
          /\ InRange(data, indices_filtered[i])
          /\ At(data, indices_filtered[i]).totalWeightG = x_filtered[i]
          /\ At(data, indices_filtered[i]).totImpulseNs = y_filtered[i]
    /\ \A i, j \in 1..Len(indices_filtered) :
          i < j => indices_filtered[i] < indices_filtered[j]

\* the subset's first point is the second record
C2_Witness ==
    /\ Len(data) = 2 /\ indices_filtered = <<1>>
    /\ data[1].totalWeightG # data[2].totalWeightG

\* C3: a record is in the filtered output exactly when its tier is enabled,
\* and at most once; with no tier enabled the output and the index map are
\* empty and neither the plot nor the selection handling reports an error.
C3_FilterIffEnabled ==
    /\ \A k \in 1..Len(data) :
          Count(indices_filtered, k - 1) =
              IF \E t \in Tiers : show[t] /\ TierHolds(t, data[k].totImpulseNs)
              THEN 1 ELSE 0
    /\ (\A t \in Tiers : ~show[t]) =>
          /\ indices_filtered = <<>> /\ x_filtered = <<>> /\ y_filtered = <<>>
          /\ overlay = None
          /\ uncaught = "none"
          /\ "Error retrieving selection" \notin messages
          /\ "Error calculating regression" \notin messages
          /\ "Error converting data for regression" \notin messages
          /\ app = "web" => selected = None

\* the web script ran to its end with every tier disabled
C3_Witness ==
    /\ app = "web" /\ pc = "idle" /\ Len(data) = 2
    /\ \A t \in Tiers : ~show[t]
    /\ indices_filtered = <<>>

\* C4: a click or selection on position i of the subset resolves to
\* IndexMap[i] when 0 <= i < len(IndexMap); a position outside the current
\* IndexMap selects nothing, is reported as a warning and never leaves the
\* handler as an exception.
C4_Step ==
    /\ DesktopClick =>
          LET i == clicked'[1]
          IN  IF InRange(indices_filtered, i)
              THEN selected' = Some(At(indices_filtered, i)) /\ uncaught' = "none"
              ELSE selected' = selected /\ uncaught' = "none"
    /\ \A ev \in EventChoices :
          (app = "web" /\ pc = "select" /\ ev # None /\ WebHandleEventWith(ev)) =>
              IF InRange(indices_filtered, ev[1])
              THEN selected' = Some(At(indices_filtered, ev[1])) /\ uncaught' = "none"
              ELSE /\ selected' = None
                   /\ "Error retrieving selection" \in messages'
                   /\ uncaught' = "none"
C4_SelectionResolution == [][C4_Step]_vars

\* a stale selection was absorbed by the web script: warned, nothing selected
C4_Witness ==
    /\ app = "web" /\ pc = "idle" /\ selected = None
    /\ "Error retrieving selection" \in messages
    /\ Len(indices_filtered) < Len(data)

AllSame(x) == \A i, j \in 1..Len(x) : x[i] = x[j]

\* C9: the regression overlay is drawn exactly when at least 2 points with
\* not all-identical x are plotted; otherwise there is no overlay, and in
\* every case the points are rendered and no exception leaves the plot.
C9_OverlayIffNonDegenerate ==
    pc = "plotted" =>
        /\ overlay # None <=> (Len(x_filtered) >= 2 /\ ~AllSame(x_filtered))
        /\ Len(x_filtered) >= 1 => drawn
        /\ uncaught = "none"

BurnTimes == IF app = "web" THEN [k \in 1..Len(processed) |-> processed[k].BurnTime]
             ELSE processed["burn_times"]
ClaimedBurnTime(m) ==
    IF Has(m, "burnTimeS") /\ m["burnTimeS"].v # 0 THEN FInt(m["burnTimeS"].v)
    ELSE IF m["avgThrustN"].v > 0 THEN Frac(m["totImpulseNs"].v, m["avgThrustN"].v)
    ELSE FInt(0)

\* C8: in both programs the burn time of every normalized record is its
\* burnTimeS if present and nonzero, else totImpulseNs / avgThrustN if
\* avgThrustN > 0, else 0, and no division by a zero avgThrustN is made.
C8_BurnTimeFallback ==
    /\ uncaught # "ZeroDivisionError"
    /\ \A k \in 1..Len(BurnTimes) : BurnTimes[k] = ClaimedBurnTime(data[k])

Defective(m) ==
    \E f \in RequiredFields : ~Has(m, f) \/ (f \in NumericFields /\ ~m[f].num)
Produced == IF app = "web" THEN Len(processed) ELSE Len(processed["indices"])

\* C10: a batch with a record that lacks a required field, or has a
\* non-numeric value in a numeric one, ends in a ValidationError reported
\* to the caller: no record is produced for it and no exception is left
\* unhandled.
C10_ValidationErrorReported ==
    (pc \in {"returned", "raised"} /\ \E k \in 1..Len(data) : Defective(data[k])) =>
        /\ uncaught = "none"
        /\ "ValidationError" \in messages
        /\ \A k \in 1..Len(data) : Defective(data[k]) => Produced < k

AllValid == \A k \in 1..Len(data) : ~Defective(data[k])
\* the k-th analysis record carries the fields of the k-th input record
DerivedFrom(k) ==
    IF app = "web"
    THEN /\ processed[k].Name = data[k]["commonName"]
         /\ processed[k].Manufacturer = data[k]["manufacturer"]
         /\ processed[k].Thrust = data[k]["avgThrustN"]
         /\ processed[k].Impulse = data[k]["totImpulseNs"]
         /\ processed[k].Weight = data[k]["totalWeightG"]
    ELSE /\ processed["names"][k] = data[k]["commonName"]
         /\ processed["manufacturers"][k] = data[k]["manufacturer"]
         /\ processed["avg_thrust"][k] = data[k]["avgThrustN"]
         /\ processed["total_impulse"][k] = data[k]["totImpulseNs"]
         /\ processed["total_weight"][k] = data[k]["totalWeightG"]
         /\ processed["indices"][k] = k - 1

\* C11: for an input of valid records the loop never raises; after every
\* iteration all per-field lists have the same length, the k-th analysis
\* record is derived from the k-th input record and indices[k] is k
\* (zero-based: At(indices, k) = k); at the end there are exactly as many
\* analysis records as input records.
C11_LengthAndOrderPreserved ==
    (AllValid /\ pc \in {"loop", "returned", "raised"}) =>
        /\ pc # "raised" /\ uncaught = "none"
        /\ app = "desktop" => \A n \in ListNames : Len(processed[n]) = Produced
        /\ Produced <= Len(data)
        /\ \A k \in 1..Produced : DerivedFrom(k)
        /\ pc = "returned" => Produced = Len(data)

\* the desktop loop has gone through two valid records
C11_Witness ==
    /\ app = "desktop" /\ pc = "returned" /\ AllValid
    /\ Len(data) >= 2 /\ Len(processed["indices"]) = Len(data)
    /\ data[1] # data[2]

\* a line that is neither blank nor a comment
Content(raw) == Strip(raw) # <<>> /\ Head(Strip(raw)) # 59
Tokens(raw) == Split(Strip(raw))
\* the position of the header: the first content line with 3 tokens or more
HeaderAt(ls) ==
    IF \E i \in 1..Len(ls) : Content(ls[i]) /\ Len(Tokens(ls[i])) >= 3
    THEN CHOOSE i \in 1..Len(ls) :
            /\ Content(ls[i]) /\ Len(Tokens(ls[i])) >= 3
            /\ \A j \in 1..(i - 1) : ~(Content(ls[j]) /\ Len(Tokens(ls[j])) >= 3)
    ELSE Len(ls) + 1
IsSample(raw) ==
    /\ Content(raw) /\ Len(Tokens(raw)) >= 2
    /\ Float(Tokens(raw)[1]) # None /\ Float(Tokens(raw)[2]) # None
RECURSIVE SamplesOf(_)
SamplesOf(ls) ==
    IF ls = <<>> THEN <<>>
    ELSE (IF IsSample(Head(ls))
          THEN <<<<Float(Tokens(Head(ls))[1])[1], Float(Tokens(Head(ls))[2])[1]>>>>
          ELSE <<>>) \o SamplesOf(Tail(ls))
ExpectedSamples(ls) == SamplesOf(SubSeq(ls, HeaderAt(ls) + 1, Len(ls)))

\* C5: once the header is recognized the samples are, in file order, one
\* (time, thrust) pair for every content line whose first two tokens are
\* numbers; any other line adds nothing (never a time without a thrust)
\* and does not stop the lines after it.
C5_SamplesPerValidLine ==
    LET seen == SubSeq(fetch.lines, 1, fetch.next - 1)
        expected == ExpectedSamples(seen)
    IN  pc \in {"parse", "returned"} =>
        /\ Len(fetch.times) = Len(fetch.thrusts)
        /\ [i \in 1..Len(fetch.times) |-> <<fetch.times[i], fetch.thrusts[i]>>] = expected
        /\ (pc = "returned" /\ result # None) =>
              /\ seen = fetch.lines
              /\ result[1].times = [i \in 1..Len(expected) |-> expected[i][1]]
              /\ result[1].thrusts = [i \in 1..Len(expected) |-> expected[i][2]]

\* a malformed line between the header and a valid line
C5_Witness ==
    /\ pc = "returned"
    /\ fetch.lines = <<L_header, L_badsecond, L_zero>>
    /\ result = Some([times |-> <<FInt(0)>>, thrusts |-> <<FInt(0)>>])

DeliveredResults == IF resp.has_results THEN resp.results ELSE <<>>
DecodesToNothing(d) == d # None /\ B64Decode(d[1]).ok /\ Utf8Ignore(B64Decode(d[1]).bytes) = <<>>

\* C6: fetch_thrust_curve never raises and returns either None or a curve
\* of at least one sample; it returns None when the results are absent or
\* empty, when no entry has a data blob, when the blob decodes to nothing
\* and when no sample is parsed.
C6_NoneOrNonEmptyCurve ==
    /\ uncaught = "none"
    /\ pc # "returned" => result = None
    /\ pc = "returned" =>
          /\ result # None =>
                /\ Len(result[1].times) >= 1
                /\ Len(result[1].times) = Len(result[1].thrusts)
          /\ resp.error => result = None
          /\ DeliveredResults = <<>> => result = None
          /\ (\A i \in 1..Len(DeliveredResults) : GetData(DeliveredResults[i]) = None)
                => result = None
          /\ DecodesToNothing(fetch.rasp_data) => result = None
          /\ fetch.times = <<>> => result = None

\* a header and nothing else: the lines were parsed, no sample, None
C6_Witness ==
    /\ pc = "returned" /\ result = None
    /\ fetch.lines = <<L_header>> /\ fetch.next = 2 /\ fetch.header_parsed

ClaimedBlob(results) ==
    IF FirstRasp(results) # None THEN GetData(results[FirstRasp(results)[1]])
    ELSE IF results # <<>> THEN GetData(results[1])
    ELSE None

\* an empty string is no blob: "if not rasp_data: return None"
Blob(d) == IF d = Some(<<>>) THEN None ELSE d

\* C7: the blob that is parsed is the data of the first RASP entry if there
\* is one, else the data of the first entry, else there is no data.
C7_FormatSelection ==
    (pc # "request" /\ ~resp.error) =>
        Blob(fetch.rasp_data) = Blob(ClaimedBlob(DeliveredResults))

\* p <= q for two fractions with positive denominators
TimeLeq(p, q) == p[1] * q[2] <= q[1] * p[2]

\* C12: every returned curve is time-ascending: no sample's time is
\* greater than the time of the sample after it.
C12_TimeAscending ==
    (pc = "returned" /\ result # None) =>
        \A i \in 1..(Len(result[1].times) - 1) :
            TimeLeq(result[1].times[i], result[1].times[i + 1])

\* the samples collected so far, as (time, thrust) pairs
Samples(f) == [i \in 1..Len(f.times) |-> <<f.times[i], f.thrusts[i]>>]
C13_Step ==
    (pc = "parse" /\ fetch.next <= Len(fetch.lines) /\ fetch'.next = fetch.next + 1) =>
        LET raw == fetch.lines[fetch.next]
            first == \A j \in 1..(fetch.next - 1) : ~Content(fetch.lines[j])
        IN  /\ fetch.header_parsed => fetch'.header_parsed
            /\ ~Content(raw) =>
                  /\ fetch'.header_parsed = fetch.header_parsed
                  /\ Samples(fetch') = Samples(fetch)
            /\ (Content(raw) /\ first) =>
                  /\ fetch'.header_parsed = (Len(Tokens(raw)) >= 3)
                  /\ Samples(fetch') = Samples(fetch)
            /\ (Content(raw) /\ ~first) =>
                  /\ fetch'.header_parsed = fetch.header_parsed
                  /\ Samples(fetch') = Samples(fetch) \o SamplesOf(<<raw>>)

\* C13: in the parse loop only the first non-blank, non-comment line is
\* consumed as the header: it gives no sample and sets the header state
\* exactly when it has 3 tokens or more; blank and ';' lines change
\* nothing; the header state never reverts; every later non-comment line
\* is handled as a data line and none is discarded as a header.
C13_OneHeaderLine == [][C13_Step]_vars

\* the record's tier is enabled by the current checkbox values
Enabled(m) == \E t \in Tiers : show[t] /\ TierHolds(t, m["totImpulseNs"].v)
\* the zero-based positions of the enabled records among the first k
RECURSIVE ShownUpTo(_)
ShownUpTo(k) ==
    IF k = 0 THEN <<>>
    ELSE ShownUpTo(k - 1) \o (IF Enabled(data[k]) THEN <<k - 1>> ELSE <<>>)
\* what every page holds is a function of the full lists and of show alone
PagesAgree ==
    LET idx == ShownUpTo(Len(data))
    IN  \A page \in PageNames :
            /\ frames[page].indices_filtered = idx
            /\ Len(frames[page].x) = Len(idx)
            /\ Len(frames[page].y) = Len(idx)
            /\ Len(frames[page].names) = Len(idx)
            /\ \A i \in 1..Len(idx) :
                  /\ frames[page].x[i] = At(processed[PageColumns[page][1]], idx[i])
                  /\ frames[page].y[i] = At(processed[PageColumns[page][2]], idx[i])
                  /\ frames[page].names[i] =
                        <<At(data, idx[i])["commonName"], At(data, idx[i])["manufacturer"]>>
C14_Step ==
    /\ PagesAgree'
    /\ PagesClick =>
          /\ selected' = Some(At(ShownUpTo(Len(data)), clicked'[1]))
          /\ uncaught' = "none"

\* C14: after any sequence of checkbox toggles the filtered data and
\* indices_filtered of every one of the seven pages are those computed
\* from the full record set and the current checkbox values alone, and a
\* click on point i of any page resolves to the record displayed at i.
C14_FilterStateless == PagesAgree /\ [][C14_Step]_vars

\* the low tier was switched off and on and off again; the remaining
\* point of a page was clicked
C14_Witness ==
    /\ app = "desktop" /\ Len(data) = 2 /\ frames # <<>>
    /\ ~show["low"] /\ show["l1"] /\ show["l2"] /\ show["l3"]
    /\ frames["GraphIsp"].indices_filtered = <<1>>
    /\ frames["GraphBurnTimeImpulse"].indices_filtered = <<1>>
    /\ clicked = Some(0) /\ selected = Some(1)

====
